---- MODULE Spec2Model ----
(***************************************************************************)
(* Model of src/Main.py: the message pipeline handle_message of the anime  *)
(* screenshot bot, with download_image_file, submit_search and             *)
(* get_anilist_info.  One pipeline run is modelled per behaviour; every    *)
(* await of the source is one action, and the outcome of every external    *)
(* call (Telegram, trace.moe, AniList) is chosen nondeterministically.     *)
(*                                                                         *)
(* Optional values (Python None) are sequences of length 0 or 1.           *)
(* Strings that the code inspects (captions, mime types, urls) are         *)
(* sequences of characters or of parts.  The reply text built by           *)
(* submit_search is kept as a record of its kind and its title list.       *)
(***************************************************************************)
EXTENDS Integers, Sequences, FiniteSets, TLC

VARIABLES
    update,           \* the inbound event: effective_message and effective_user
    pc,               \* position of handle_message
    responding_msg,   \* Main.py:224
    loading_message,  \* Main.py:225, 244
    opts,             \* Main.py:227-232
    image_bytes,      \* Main.py:235
    match,            \* data["result"][0] inside submit_search (Main.py:161)
    anilist_info,     \* Main.py:162
    searchReq,        \* the request submit_search posted to trace.moe
    result,           \* Main.py:249
    calls             \* every external call made so far, in order

vars == <<update, pc, responding_msg, loading_message, opts, image_bytes,
          match, anilist_info, searchReq, result, calls>>

----------------------------------------------------------------------------
\* Bounds of the model

\* sender ids range over 1..MaxUser
MaxUser == 2

----------------------------------------------------------------------------
\* Optional values

None == <<>>

Some(x) == <<x>>

Get(o) == o[1]

----------------------------------------------------------------------------
\* Strings as character sequences

LowerChar(c) ==
    CASE c = "S" -> "s"
      [] c = "K" -> "k"
      [] c = "I" -> "i"
      [] c = "P" -> "p"
      [] c = "M" -> "m"
      [] c = "U" -> "u"
      [] c = "T" -> "t"
      [] c = "E" -> "e"
      [] OTHER -> c

\* str.lower()
Lower(s) == [i \in DOMAIN s |-> LowerChar(s[i])]

\* Python's  sub in s  on strings
Contains(sub, s) ==
    \E i \in 0..(Len(s) - Len(sub)) : SubSeq(s, i + 1, i + Len(sub)) = sub

FlagNoCrop == <<"n", "o", "c", "r", "o", "p">>

FlagMute == <<"m", "u", "t", "e">>

FlagSkip == <<"s", "k", "i", "p">>

\* "Skip"
CaptionSkip == Some(<<"S", "k", "i", "p">>)

\* "MUTE it"
CaptionMute == Some(<<"M", "U", "T", "E", " ", "i", "t">>)

\* "nocrop mute"
CaptionNoCropMute == Some(<<"n", "o", "c", "r", "o", "p", " ", "m", "u", "t", "e">>)

\* "hi"
CaptionPlain == Some(<<"h", "i">>)

\* "skip nocrop mute"
CaptionAll ==
    Some(<<"s", "k", "i", "p", " ", "n", "o", "c", "r", "o", "p", " ", "m", "u", "t", "e">>)

\* captions an inbound message may carry
Captions == {None, CaptionSkip, CaptionMute, CaptionNoCropMute, CaptionPlain}

\* captions of a replied-to message
ReplyCaptions == {None, CaptionAll}

\* (message.caption or "")
CaptionOrEmpty(message) ==
    IF message.caption = None THEN <<>> ELSE Get(message.caption)

----------------------------------------------------------------------------
\* Messages

Users == 1..MaxUser

NoMedia == [photo |-> None, animation |-> None, video |-> None, document |-> None]

MimeImage == Some(<<"image", "png">>)

MimeVideo == Some(<<"video", "mp4">>)

MimePdf == Some(<<"application", "pdf">>)

\* the media a message whose files are named f can carry
Media(f) ==
    { NoMedia,
      [NoMedia EXCEPT !.photo = Some(<<f, "photo">>)],
      [NoMedia EXCEPT !.animation = Some(<<f, "animation">>),
                      !.document = Some([mime_type |-> MimeVideo, file |-> <<f, "document">>])],
      [NoMedia EXCEPT !.video = Some(<<f, "video">>)],
      [NoMedia EXCEPT !.document = Some([mime_type |-> MimeImage, file |-> <<f, "document">>])],
      [NoMedia EXCEPT !.document = Some([mime_type |-> MimePdf, file |-> <<f, "document">>])],
      [NoMedia EXCEPT !.document = Some([mime_type |-> None, file |-> <<f, "document">>])] }

\* mime_type.startswith('image/')
IsImageMime(mime_type) == Get(mime_type)[1] = "image"

\* filters.PHOTO | filters.VIDEO | filters.ANIMATION | filters.Document.IMAGE
MessageFilter(media) ==
    \/ media.photo # None
    \/ media.video # None
    \/ media.animation # None
    \/ /\ media.document # None
       /\ Get(media.document).mime_type # None
       /\ IsImageMime(Get(media.document).mime_type)

RepliedMessages ==
    { [media |-> m, caption |-> c, from_id |-> u, reply_to_message |-> None] :
        m \in Media("replied"), c \in ReplyCaptions, u \in Users }

InboundMessages ==
    { [media |-> m, caption |-> c, from_id |-> u, reply_to_message |-> r] :
        m \in {x \in Media("inbound") : MessageFilter(x)},
        c \in Captions, u \in Users,
        r \in {None} \cup {Some(x) : x \in RepliedMessages} }

\* the updates the MessageHandler of main() hands to handle_message
Updates ==
    { [effective_message |-> m, effective_user |-> [id |-> m.from_id]] :
        m \in InboundMessages }

----------------------------------------------------------------------------
\* Texts and calls

Text(kind, titles) == [kind |-> kind, titles |-> titles]

NoText == Text("none", <<>>)

Call(op, arg, ok, text, video) ==
    [op |-> op, arg |-> arg, ok |-> ok, text |-> text, video |-> video]

NoResult == [text |-> NoText, video |-> None, is_adult |-> None]

----------------------------------------------------------------------------
\* Pure parts of handle_message, download_image_file and submit_search

\* a handler that always takes the inbound message as the subject
RespondingMsg_Inbound(message) == message

\* message.reply_to_message or message
RespondingMsg(message) ==
    IF message.reply_to_message # None
    THEN Get(message.reply_to_message)
    ELSE message

\* the opts dict
Opts(message, user) ==
    [no_crop |-> Contains(FlagNoCrop, Lower(CaptionOrEmpty(message))),
     mute    |-> Contains(FlagMute, Lower(CaptionOrEmpty(message))),
     skip    |-> Contains(FlagSkip, Lower(CaptionOrEmpty(message))),
     from_id |-> user.id]

\* the if/elif chain of download_image_file: the file it asks for, "none" when
\* it returns None, "raise" when evaluating the chain raises (a document whose
\* mime_type is None has no startswith)
SelectFile(media) ==
    IF media.photo # None THEN [kind |-> "file", file |-> Get(media.photo)]
    ELSE IF media.animation # None THEN [kind |-> "file", file |-> Get(media.animation)]
    ELSE IF media.video # None THEN [kind |-> "file", file |-> Get(media.video)]
    ELSE IF media.document # None
    THEN IF Get(media.document).mime_type = None
         THEN [kind |-> "raise", file |-> <<>>]
         ELSE IF IsImageMime(Get(media.document).mime_type)
         THEN [kind |-> "file", file |-> Get(media.document).file]
         ELSE [kind |-> "none", file |-> <<>>]
    ELSE [kind |-> "none", file |-> <<>>]

\* a test for None only:  if image_bytes is None
NoImageBytes_IsNone(bytes) == bytes = None

\* not image_bytes: None, or a download of no bytes
NoImageBytes(bytes) == bytes = None \/ Get(bytes) = <<>>

\* the params of the trace.moe request
SearchParams(o) ==
    [cutBorders |-> IF ~o.no_crop THEN "1" ELSE "",
     uid        |-> <<"tg", o.from_id>>]

\* filter(None, titles) keeps the titles that are neither None nor ""
Falsy(t) == t = None \/ Get(t) = ""

InSeq(x, s) == \E i \in DOMAIN s : s[i] = x

RECURSIVE AppendUnique(_, _)
\* [unique_titles.append(t) for t in titles if t not in unique_titles]
AppendUnique(unique_titles, titles) ==
    IF titles = <<>> THEN unique_titles
    ELSE AppendUnique(IF InSeq(Head(titles), unique_titles)
                      THEN unique_titles
                      ELSE Append(unique_titles, Head(titles)),
                      Tail(titles))

IsPresent(t) == ~Falsy(t)

Unwrap(s) == [i \in DOMAIN s |-> Get(s[i])]

\* the title list without the de-duplication
UniqueTitles_NoDedup(title) ==
    Unwrap(SelectSeq(<<title.native, title.romaji, title.english>>, IsPresent))

UniqueTitles(title) ==
    AppendUnique(<<>>,
        Unwrap(SelectSeq(<<title.native, title.romaji, title.english>>, IsPresent)))

\* the dict submit_search returns for a match with its metadata
FoundResult(m, info) ==
    [text     |-> Text("found", UniqueTitles(Get(info.title))),
     video    |-> Some(<<m.video, "&size=l">>),
     is_adult |-> Some(info.isAdult)]

TextResult(kind) == [text |-> Text(kind, <<>>), video |-> None, is_adult |-> None]

\* a handler without the adult branch
IsAdult_Never(r) == FALSE

\* result.get("is_adult")
IsAdult(r) == r.is_adult # None /\ Get(r.is_adult)

\* result.get("video") and not opts.get("skip")
ShowVideo(r, o) == r.video # None /\ ~o.skip

\* f"{result['video']}&mute" if opts.get("mute") else result['video']
VideoUrl(r, o) == IF o.mute THEN Append(Get(r.video), "&mute") ELSE Get(r.video)

----------------------------------------------------------------------------
\* Values of the external services

TitleValues == {None, Some(""), Some("A"), Some("B"), Some("C")}

\* every title object: each of native, romaji, english absent, empty or one
\* of three names
Titles == [native : TitleValues, romaji : TitleValues, english : TitleValues]

\* the title objects the pipeline runs are explored with
PipelineTitles ==
    [native : {None, Some("A")}, romaji : {Some("B")}, english : {Some("A")}]

MediaOf(titles) == [kind : {"media"}, title : {Some(t) : t \in titles}, isAdult : BOOLEAN]

\* the Media objects AniList may answer with; a null title makes
\* anilist_info.get("title", {}).get(...) raise
MediaInfos ==
    MediaOf(PipelineTitles) \cup [kind : {"media"}, title : {None}, isAdult : BOOLEAN]

\* {} after a caught exception, None for "Media": null
EmptyInfos == { [kind |-> k, title |-> None, isAdult |-> FALSE] : k \in {"empty", "null"} }

\* not anilist_info
NoInfo(info) == info.kind # "media"

Matches == { [anilist |-> 21, video |-> "http://x/v.mp4"] }

----------------------------------------------------------------------------
\* The pipeline

Init ==
    /\ update \in Updates
    /\ pc = "entry"
    /\ responding_msg = None
    /\ loading_message = None
    /\ opts = None
    /\ image_bytes = None
    /\ match = None
    /\ anilist_info = None
    /\ searchReq = None
    /\ result = NoResult
    /\ calls = <<>>

Log(c) == calls' = Append(calls, c)

\* handle_message up to the try: the subject message and the options
Entry ==
    /\ pc = "entry"
    /\ responding_msg' = Some(RespondingMsg(update.effective_message))
    /\ loading_message' = None
    /\ opts' = Some(Opts(update.effective_message, update.effective_user))
    /\ pc' = "download"
    /\ UNCHANGED <<update, image_bytes, match, anilist_info, searchReq, result, calls>>

\* image_bytes = await download_image_file(responding_msg), and the test of
\* image_bytes that follows; every exception inside is caught and gives None
DownloadImageFile ==
    /\ pc = "download"
    /\ LET sel == SelectFile(Get(responding_msg).media)
       IN \/ /\ sel.kind \in {"none", "raise"}
             /\ image_bytes' = None
             /\ UNCHANGED calls
          \/ /\ sel.kind = "file"
             /\ \/ /\ image_bytes' = None
                   /\ Log(Call("get_file", sel.file, FALSE, NoText, None))
                \/ /\ image_bytes' = None
                   /\ calls' = calls \o <<Call("get_file", sel.file, TRUE, NoText, None),
                                          Call("download", sel.file, FALSE, NoText, None)>>
                \/ /\ \E content \in {<<>>, sel.file} : image_bytes' = Some(content)
                   /\ calls' = calls \o <<Call("get_file", sel.file, TRUE, NoText, None),
                                          Call("download", sel.file, TRUE, NoText, None)>>
    /\ pc' = IF NoImageBytes(image_bytes') THEN "help" ELSE "loading"
    /\ UNCHANGED <<update, responding_msg, loading_message, opts, match,
                   anilist_info, searchReq, result>>

\* await message.reply_text("Please send an image, GIF, or video."); return
ReplyHelp ==
    /\ pc = "help"
    /\ \E ok \in BOOLEAN :
          /\ Log(Call("reply_text", <<"message">>, ok, Text("help", <<>>), None))
          /\ pc' = IF ok THEN "done" ELSE "except"
    /\ UNCHANGED <<update, responding_msg, loading_message, opts, image_bytes,
                   match, anilist_info, searchReq, result>>

\* loading_message = await message.reply_animation(...)
SendLoading ==
    /\ pc = "loading"
    /\ \E ok \in BOOLEAN :
          /\ Log(Call("reply_animation", <<"message">>, ok, Text("loading", <<>>), None))
          /\ loading_message' = IF ok THEN Some("loading") ELSE loading_message
          /\ pc' = IF ok THEN "search" ELSE "except"
    /\ UNCHANGED <<update, responding_msg, opts, image_bytes, match,
                   anilist_info, searchReq, result>>

\* submit_search up to the metadata fetch: the POST to trace.moe and the look
\* at its result list
SubmitSearch ==
    /\ pc = "search"
    /\ searchReq' = Some([params |-> SearchParams(Get(opts)), image |-> Get(image_bytes)])
    /\ \/ \* httpx.HTTPError: transport error or raise_for_status
          /\ Log(Call("search", <<>>, FALSE, NoText, None))
          /\ result' = TextResult("api_error")
          /\ match' = None
          /\ pc' = "delete"
       \/ \* any other exception: a body that is not JSON, an entry without its keys
          /\ Log(Call("search", <<>>, TRUE, NoText, None))
          /\ result' = TextResult("error")
          /\ match' = None
          /\ pc' = "delete"
       \/ \* not data.get("result")
          /\ Log(Call("search", <<>>, TRUE, NoText, None))
          /\ result' = TextResult("no_results")
          /\ match' = None
          /\ pc' = "delete"
       \/ \* result = data["result"][0]
          /\ Log(Call("search", <<>>, TRUE, NoText, None))
          /\ \E m \in Matches : match' = Some(m)
          /\ result' = result
          /\ pc' = "anilist"
    /\ UNCHANGED <<update, responding_msg, loading_message, opts, image_bytes,
                   anilist_info>>

\* anilist_info = await get_anilist_info(result["anilist"]) and the rest of
\* submit_search
GetAnilistInfo ==
    /\ pc = "anilist"
    /\ \/ \* the request fails or the body is malformed: {} ; or "Media": null
          /\ \E info \in EmptyInfos :
                /\ anilist_info' = Some(info)
                /\ Log(Call("anilist", <<Get(match).anilist>>, info.kind = "null", NoText, None))
          /\ result' = TextResult("fetch_failed")
       \/ \* a Media object; building the text raises when its title is null or
          \* when the matched entry lacks episode, from, similarity or video
          /\ \E info \in MediaInfos, entry_ok \in BOOLEAN :
                /\ anilist_info' = Some(info)
                /\ result' = IF info.title = None \/ ~entry_ok
                             THEN TextResult("error")
                             ELSE FoundResult(Get(match), info)
          /\ Log(Call("anilist", <<Get(match).anilist>>, TRUE, NoText, None))
    /\ pc' = "delete"
    /\ UNCHANGED <<update, responding_msg, loading_message, opts, image_bytes,
                   match, searchReq>>

\* a handler that replies without deleting the loading message
DeleteLoading_Skipped ==
    /\ pc = "delete"
    /\ pc' = "branch"
    /\ UNCHANGED <<update, responding_msg, loading_message, opts, image_bytes,
                   match, anilist_info, searchReq, result, calls>>

\* await loading_message.delete(), then the branch on the result
DeleteLoading ==
    /\ pc = "delete"
    /\ \E ok \in BOOLEAN :
          /\ Log(Call("delete", <<"loading_message">>, ok, NoText, None))
          /\ pc' = IF ok THEN "branch" ELSE "except"
    /\ UNCHANGED <<update, responding_msg, loading_message, opts, image_bytes,
                   match, anilist_info, searchReq, result>>

AdvisoryPm == Text("adult_pm", <<>>)

AdvisoryChat == Text("adult_enable_pm", <<>>)

\* await user.send_message("Adult content detected. Details cannot be shown here.")
SendAdvisory ==
    /\ pc = "branch"
    /\ IsAdult(result)
    /\ \E ok \in BOOLEAN :
          /\ Log(Call("send_message", <<"user">>, ok, AdvisoryPm, None))
          /\ pc' = IF ok THEN "done" ELSE "adult_except"
    /\ UNCHANGED <<update, responding_msg, loading_message, opts, image_bytes,
                   match, anilist_info, searchReq, result>>

\* except: await message.reply_text("Adult content detected. Please enable PM.")
ReplyAdvisory ==
    /\ pc = "adult_except"
    /\ \E ok \in BOOLEAN :
          /\ Log(Call("reply_text", <<"message">>, ok, AdvisoryChat, None))
          /\ pc' = IF ok THEN "done" ELSE "except"
    /\ UNCHANGED <<update, responding_msg, loading_message, opts, image_bytes,
                   match, anilist_info, searchReq, result>>

\* await responding_msg.reply_video(video=video_url, caption=result["text"])
ReplyVideo ==
    /\ pc = "branch"
    /\ ~IsAdult(result)
    /\ ShowVideo(result, Get(opts))
    /\ \E ok \in BOOLEAN :
          /\ Log(Call("reply_video", <<"responding_msg">>, ok, result.text,
                      Some(VideoUrl(result, Get(opts)))))
          /\ pc' = IF ok THEN "done" ELSE "except"
    /\ UNCHANGED <<update, responding_msg, loading_message, opts, image_bytes,
                   match, anilist_info, searchReq, result>>

\* await responding_msg.reply_text(result["text"])
ReplyText ==
    /\ pc = "branch"
    /\ ~IsAdult(result)
    /\ ~ShowVideo(result, Get(opts))
    /\ \E ok \in BOOLEAN :
          /\ Log(Call("reply_text", <<"responding_msg">>, ok, result.text, None))
          /\ pc' = IF ok THEN "done" ELSE "except"
    /\ UNCHANGED <<update, responding_msg, loading_message, opts, image_bytes,
                   match, anilist_info, searchReq, result>>

\* except Exception: if loading_message: try: await loading_message.delete()
\* except: pass
ExceptDelete ==
    /\ pc = "except"
    /\ IF loading_message # None
       THEN \E ok \in BOOLEAN :
               Log(Call("delete", <<"loading_message">>, ok, NoText, None))
       ELSE UNCHANGED calls
    /\ pc' = "except_reply"
    /\ UNCHANGED <<update, responding_msg, loading_message, opts, image_bytes,
                   match, anilist_info, searchReq, result>>

\* await message.reply_text("An error occurred. Please try again later."),
\* the last statement of the except block: when it raises, the exception
\* leaves handle_message
ExceptReply ==
    /\ pc = "except_reply"
    /\ \E ok \in BOOLEAN :
          /\ Log(Call("reply_text", <<"message">>, ok, Text("generic_error", <<>>), None))
          /\ pc' = IF ok THEN "done" ELSE "raised"
    /\ UNCHANGED <<update, responding_msg, loading_message, opts, image_bytes,
                   match, anilist_info, searchReq, result>>

\* the application's error handler, called with what handle_message raised
ErrorHandler ==
    /\ pc = "raised"
    /\ \E ok \in BOOLEAN :
          Log(Call("reply_text", <<"effective_message">>, ok, Text("handler_error", <<>>), None))
    /\ pc' = "handled"
    /\ UNCHANGED <<update, responding_msg, loading_message, opts, image_bytes,
                   match, anilist_info, searchReq, result>>

Next ==
    \/ Entry
    \/ DownloadImageFile
    \/ ReplyHelp
    \/ SendLoading
    \/ SubmitSearch
    \/ GetAnilistInfo
    \/ DeleteLoading
    \/ SendAdvisory
    \/ ReplyAdvisory
    \/ ReplyVideo
    \/ ReplyText
    \/ ExceptDelete
    \/ ExceptReply
    \/ ErrorHandler

Spec == Init /\ [][Next]_vars

----------------------------------------------------------------------------
\* The title list of submit_search on its own, over every title object

InitTitles ==
    /\ update \in {u \in Updates : /\ u.effective_message.reply_to_message = None
                                   /\ u.effective_message.caption = None
                                   /\ u.effective_message.media.photo # None}
    /\ pc = "titles"
    /\ responding_msg = None
    /\ loading_message = None
    /\ opts = None
    /\ image_bytes = None
    /\ match \in {Some(m) : m \in Matches}
    /\ anilist_info \in {Some(i) : i \in MediaOf(Titles)}
    /\ searchReq = None
    /\ result = NoResult
    /\ calls = <<>>

\* lines 167-190 of submit_search, applied to the fetched metadata
FormatResult ==
    /\ pc = "titles"
    /\ result' = FoundResult(Get(match), Get(anilist_info))
    /\ pc' = "formatted"
    /\ UNCHANGED <<update, responding_msg, loading_message, opts, image_bytes,
                   match, anilist_info, searchReq, calls>>

TitleSpec == InitTitles /\ [][FormatResult]_vars

----------------------------------------------------------------------------
\* Vocabulary of the properties

\* handle_message has returned
Returned == pc = "done"

\* an exception has left handle_message
Escaped == pc \in {"raised", "handled"}

Terminated == Returned \/ Escaped

Idx == DOMAIN calls

\* a reply call of handle_message: a message for the user other than the
\* loading animation
IsReply(c) ==
    /\ c.op \in {"reply_text", "reply_video", "send_message"}
    /\ c.text.kind # "handler_error"

Issued(kind) == {i \in Idx : IsReply(calls[i]) /\ calls[i].text.kind = kind}

SentReplies == {i \in Idx : IsReply(calls[i]) /\ calls[i].ok}

OpCalls(op) == {i \in Idx : calls[i].op = op}

Message == update.effective_message

HasReplyTo == Message.reply_to_message # None

\* the message the image has to come from
Subject == IF HasReplyTo THEN Message.reply_to_message[1] ELSE Message

\* photo, animation, video or image-typed document
HasImageReference(media) ==
    \/ media.photo # None
    \/ media.animation # None
    \/ media.video # None
    \/ /\ media.document # None
       /\ media.document[1].mime_type \in {MimeImage}

\* the flags the sample captions spell
WantSkip(m) == m.caption \in {CaptionSkip, CaptionAll}

WantMute(m) == m.caption \in {CaptionMute, CaptionNoCropMute, CaptionAll}

WantNoCrop(m) == m.caption \in {CaptionNoCropMute, CaptionAll}

\* the fetched metadata is a Media object flagged isAdult
MetadataAdult ==
    /\ anilist_info # None
    /\ anilist_info[1].kind = "media"
    /\ anilist_info[1].isAdult

----------------------------------------------------------------------------
\* C1: whatever the external calls do, handle_message ends having sent exactly
\* one terminal reply, and no exception leaves it.
C1_OneReplyNoEscape ==
    /\ ~Escaped
    /\ Returned => Cardinality(SentReplies) = 1

C3_EmptyResultOneReply ==
    (Returned /\ result.text.kind = "no_results") =>
        /\ Cardinality(Issued("no_results")) = 1
        /\ OpCalls("anilist") = {}

\* C4: for a valid, non-adult match the reply is a video reply if and only if
\* the result has a preview url and the inbound caption has no skip flag; with
\* skip the result text is sent by reply_text and reply_video is never called.
C4_VideoIffPreviewAndNotSkip ==
    (Returned /\ result.text.kind = "found" /\ result.is_adult = Some(FALSE)) =>
        /\ (OpCalls("reply_video") # {}) <=> (result.video # None /\ ~WantSkip(Message))
        /\ WantSkip(Message) =>
              /\ OpCalls("reply_video") = {}
              /\ \E i \in Issued("found") : calls[i].op = "reply_text"

\* C5: a failure of the loading indicator (its send or its delete) never aborts
\* the pipeline or changes the reply: when no reply call failed, the search
\* was made and the generic error reply is not what the user gets.
C5_LoadingFailureNonFatal ==
    (/\ Returned
     /\ ~NoImageBytes(image_bytes)
     /\ \A i \in Idx : IsReply(calls[i]) => calls[i].ok) =>
        /\ searchReq # None
        /\ Issued("generic_error") = {}

\* C6: when the match is found and the metadata fetch fails, get_anilist_info
\* gives an empty result, no second fetch is made, and the pipeline ends with
\* exactly one reply: the "failed to fetch details" text, without a video.
C6_FetchFailureOneReply ==
    (Returned /\ anilist_info # None /\ NoInfo(anilist_info[1])) =>
        /\ Cardinality(OpCalls("anilist")) = 1
        /\ OpCalls("reply_video") = {}
        /\ Cardinality(Issued("fetch_failed")) = 1
        /\ \A i \in Issued("fetch_failed") : calls[i].op = "reply_text"

\* C7 as stated: the help reply is issued exactly when the subject message
\* has no image reference.
C7_HelpIffNoImageReference ==
    Terminated => (Issued("help") # {} <=> ~HasImageReference(Subject.media))

\* the download of the referenced file failed or gave no bytes
DownloadGaveNothing ==
    \/ \E i \in Idx : calls[i].op \in {"get_file", "download"} /\ ~calls[i].ok
    \/ image_bytes = Some(<<>>)

\* C7 amended: the help reply is issued exactly when download_image_file
\* gives no image bytes: the subject message has no image reference, or
\* fetching the referenced file fails or gives no bytes.  Then no loading
\* indicator is sent and neither service is called.
C7_HelpIffNoImageBytes ==
    Terminated =>
        /\ Issued("help") # {} <=>
              (~HasImageReference(Subject.media) \/ DownloadGaveNothing)
        /\ Issued("help") # {} =>
              /\ Cardinality(Issued("help")) = 1
              /\ OpCalls("reply_animation") = {}
              /\ OpCalls("search") = {}
              /\ OpCalls("anilist") = {}
              /\ searchReq = None

C7_Witness ==
    /\ Returned
    /\ HasImageReference(Subject.media)
    /\ DownloadGaveNothing
    /\ \E i \in Issued("help") : calls[i].ok

\* C8: the image comes from the replied-to message when there is one and from
\* the inbound message otherwise; the option flags and the requester id come
\* from the inbound message and its sender.
C8_SubjectAndOptions ==
    pc # "entry" =>
        LET tag == IF HasReplyTo THEN "replied" ELSE "inbound"
        IN /\ \A i \in OpCalls("get_file") \cup OpCalls("download") :
                 calls[i].arg[1] = tag
           /\ ~NoImageBytes(image_bytes) => image_bytes[1][1] = tag
           /\ opts = Some([no_crop |-> WantNoCrop(Message),
                           mute    |-> WantMute(Message),
                           skip    |-> WantSkip(Message),
                           from_id |-> Message.from_id])
           /\ searchReq # None =>
                 /\ searchReq[1].image[1] = tag
                 /\ searchReq[1].params.uid = <<"tg", Message.from_id>>
                 /\ searchReq[1].params.cutBorders = IF WantNoCrop(Message) THEN "" ELSE "1"
           /\ \A i \in OpCalls("reply_video") :
                 calls[i].video[1][Len(calls[i].video[1])] = "&mute" <=> WantMute(Message)

C8_Witness ==
    /\ HasReplyTo
    /\ HasImageReference(Subject.media)
    /\ Subject.caption = CaptionAll
    /\ Subject.from_id # Message.from_id
    /\ Message.caption = None
    /\ searchReq # None
    /\ \E i \in OpCalls("reply_video") : calls[i].ok

\* the titles of the fetched metadata in the order native, romaji, english
RawTitles ==
    LET t == anilist_info[1].title[1] IN <<t.native, t.romaji, t.english>>

\* a title that is there: neither null nor empty
Present(i) == RawTitles[i] # None /\ RawTitles[i] # Some("")

FirstAt(x) == CHOOSE i \in 1..3 : /\ RawTitles[i] = Some(x)
                                  /\ \A j \in 1..(i - 1) : RawTitles[j] # Some(x)

\* C9: the rendered title list holds every distinct present title exactly
\* once, nothing else, in the order of first occurrence among native, romaji,
\* english.
C9_TitlesUniqueInOrder ==
    pc = "formatted" =>
        LET out == result.text.titles
        IN /\ \A i \in 1..3 : Present(i) =>
                 Cardinality({j \in DOMAIN out : Some(out[j]) = RawTitles[i]}) = 1
           /\ \A j \in DOMAIN out : \E i \in 1..3 : Present(i) /\ RawTitles[i] = Some(out[j])
           /\ \A j, k \in DOMAIN out : j < k => FirstAt(out[j]) < FirstAt(out[k])

\* the case [A, B, A] gives [A, B]
C9_Witness ==
    /\ pc = "formatted"
    /\ RawTitles = <<Some("A"), Some("B"), Some("A")>>
    /\ result.text.titles = <<"A", "B">>

\* C10: once the loading message was sent, no reply is issued before a delete
\* of the loading message has been attempted.
C10_DeleteBeforeReply ==
    \A i \in Idx : \A j \in 1..(i - 1) :
        (IsReply(calls[i]) /\ calls[j].op = "reply_animation" /\ calls[j].ok) =>
            \E k \in (j + 1)..(i - 1) : calls[k].op = "delete"

C10_Witness ==
    /\ Returned
    /\ \E j \in OpCalls("reply_animation") : calls[j].ok
    /\ \E i \in SentReplies : calls[i].text.kind = "generic_error"
    /\ \E i \in Idx : IsReply(calls[i]) /\ ~calls[i].ok /\ calls[i].text.kind = "found"

====
